---- MODULE Spec2Model ----
(***************************************************************************)
(* Zinc-LHA (src/src/main.rs): a 64-byte digest of one line of standard    *)
(* input.  Arrays of the program are sequences here, so the element the    *)
(* code writes as a[i] is a[i + 1]; At(a, i) reads it.                     *)
(***************************************************************************)
EXTENDS Integers, Sequences, FiniteSets, TLC

(***************************************************************************)
(* Bounds of the model.                                                    *)
(***************************************************************************)
\* the whole-program specification reads StdinStream(1..MaxStdin)
MaxStdin == 7

\* the pipeline specification starts from PipeStream(1..MaxPipeInput)
MaxPipeInput == 8

\* the pipeline specification runs this many of the num_rounds rounds
MaxRounds == 3

\* the lengths of the length specification: LenBase(1..MaxLenBase) plus
\* 0..MaxLenWrap times 65536
MaxLenBase == 36

MaxLenWrap == 1

(***************************************************************************)
(* Program constants.                                                      *)
(***************************************************************************)
StateLen == 64
SboxLen == 256
BaseRounds == 10000
MulConst == 158
ByteMod == 256

(***************************************************************************)
(* u8 and usize arithmetic.                                                *)
(***************************************************************************)
Pow2 == <<1, 2, 4, 8, 16, 32, 64, 128, 256>>

\* x as u8: truncation of an integer to its low eight bits
AsU8(x) == x % ByteMod

\* u8::wrapping_add
WrapAdd(a, b) == (a + b) % ByteMod

\* u8::wrapping_mul
WrapMul(a, b) == (a * b) % ByteMod

\* usize::wrapping_mul and usize::wrapping_add: the operands the program gives
\* them (a length of at most 64 times a byte, an index below 256 times 11, an
\* index below 64 plus a length) stay far below 2^64, where the wrapped result
\* is the plain result.
WrapMulUsize(a, b) == a * b

WrapAddUsize(a, b) == a + b

\* bit k of a ^ b, in place
XorBit(a, b, k) == (((a \div Pow2[k + 1]) + (b \div Pow2[k + 1])) % 2) * Pow2[k + 1]

XorByte(a, b) ==
    XorBit(a, b, 0) + XorBit(a, b, 1) + XorBit(a, b, 2) + XorBit(a, b, 3)
    + XorBit(a, b, 4) + XorBit(a, b, 5) + XorBit(a, b, 6) + XorBit(a, b, 7)

\* XorByte tabulated once: XorTab[a + 1][b + 1] = a ^ b
XorTab == [a \in 1..256 |-> [b \in 1..256 |-> XorByte(a - 1, b - 1)] \o <<>>] \o <<>>

\* ^ on u8
Xor(a, b) == XorTab[a + 1][b + 1]

\* ^ on usize, byte by byte
RECURSIVE XorUsize(_, _)
XorUsize(a, b) ==
    IF a < 256 /\ b < 256 THEN XorTab[a + 1][b + 1]
    ELSE 256 * XorUsize(a \div 256, b \div 256) + XorTab[(a % 256) + 1][(b % 256) + 1]

RotateLeftUnreduced(val, n) ==
    IF n < 8 THEN ((val * Pow2[n + 1]) % ByteMod) + (val \div Pow2[9 - n])
    ELSE 0

\* u8::rotate_left(n): the low bits of n select the rotation, so n and n + 8
\* rotate alike; (val << k) | (val >> (8 - k)) for k = n mod 8
RotateLeft(val, n) ==
    LET k == n % 8
    IN  ((val * Pow2[k + 1]) % ByteMod) + (val \div Pow2[9 - k])

rotl(val, bits) == RotateLeft(val, bits)

\* a[i] of the program, for an index inside the array
At(a, i) == a[i + 1]

\* a[i] = v
Put(a, i, v) == [a EXCEPT ![i + 1] = v]

\* the bounds check of an indexing a[i]: the program panics when it fails
InBounds(i, a) == i >= 0 /\ i < Len(a)

sbox_lookup(sbox, val) == At(sbox, val)

\* for i in lo..hi-1 { acc = Body(acc, i) }.  The range is split in halves,
\* so that the depth of evaluation stays logarithmic in its length, and the
\* value of acc is bound once (as the one element of a singleton set) before
\* the body or the halves use it.
RECURSIVE ForRange(_, _, _, _)
ForRange(Body(_, _), acc, lo, hi) ==
    IF hi <= lo THEN acc
    ELSE LET mid == (lo + hi) \div 2
         IN  CHOOSE r \in {IF hi = lo + 1 THEN Body(a, lo)
                           ELSE ForRange(Body, ForRange(Body, a, lo, mid), mid, hi) :
                             a \in {acc}} : TRUE

(***************************************************************************)
(* Standard input: a stream of code points.  read_line takes the stream up *)
(* to and including the first line feed, or all of it when there is none;  *)
(* an empty stream is end-of-stream at once, which read_line reports as    *)
(* Ok(0) with nothing appended.                                            *)
(***************************************************************************)
LF == 10

\* the length of the line read_line takes from stream
LineEnd(stream) ==
    LET feeds == {k \in 1..Len(stream) : stream[k] = LF}
    IN  IF feeds = {} THEN Len(stream)
        ELSE CHOOSE k \in feeds : \A j \in feeds : k <= j

\* what read_line appends to the (empty) String
ReadLine(stream) == SubSeq(stream, 1, LineEnd(stream))

\* char::is_whitespace
IsWhitespace(c) ==
    \/ c \in 9..13
    \/ c \in {32, 133, 160, 5760, 8232, 8233, 8239, 8287, 12288}
    \/ c \in 8192..8202

\* str::trim: the slice from the first to the last code point that is not
\* whitespace
Trim(s) ==
    LET keep == {k \in 1..Len(s) : ~IsWhitespace(s[k])}
    IN  IF keep = {} THEN <<>>
        ELSE SubSeq(s, CHOOSE k \in keep : \A j \in keep : k <= j,
                       CHOOSE k \in keep : \A j \in keep : k >= j)

\* the UTF-8 encoding of one code point
Utf8(c) ==
    IF c < 128 THEN <<c>>
    ELSE IF c < 2048 THEN <<192 + (c \div 64), 128 + (c % 64)>>
    ELSE IF c < 65536
         THEN <<224 + (c \div 4096), 128 + ((c \div 64) % 64), 128 + (c % 64)>>
    ELSE <<240 + (c \div 262144), 128 + ((c \div 4096) % 64),
           128 + ((c \div 64) % 64), 128 + (c % 64)>>

\* str::as_bytes: the encodings of the code points, in order
RECURSIVE AsBytes(_)
AsBytes(s) ==
    IF s = <<>> THEN <<>>
    ELSE IF Len(s) = 1 THEN Utf8(s[1])
    ELSE LET mid == Len(s) \div 2
         IN  AsBytes(SubSeq(s, 1, mid)) \o AsBytes(SubSeq(s, mid + 1, Len(s)))

(***************************************************************************)
(* init_sbox, lines 42-75.  `len` is bytes.len().                          *)
(***************************************************************************)
\* lines 44-49
IdentitySbox == [k \in 1..SboxLen |-> k - 1] \o <<>>

\* bytes[len - 1]
LastIdx(bytes) == Len(bytes) - 1

\* line 51
SeedInit(bytes) == WrapAdd(At(bytes, 0), At(bytes, LastIdx(bytes)))

SeedInitSafe(bytes) == InBounds(0, bytes) /\ InBounds(LastIdx(bytes), bytes)

\* bytes[e % len]
KeyIdx(e, bytes) == e % Len(bytes)

\* sbox[(i + 7) % 256] of line 57
SboxAheadIdx(i) == (i + 7) % 256

\* lines 55-58
SboxSeed1(seed, sbox, bytes, i) ==
    Xor(Xor(Xor(WrapAdd(seed, At(bytes, KeyIdx(i, bytes))), At(sbox, i)),
            At(sbox, SboxAheadIdx(i))),
        RotateLeft(seed, i % 5))

SboxSeed1Safe(sbox, bytes, i) ==
    /\ Len(bytes) > 0
    /\ InBounds(KeyIdx(i, bytes), bytes)
    /\ InBounds(i, sbox)
    /\ InBounds(SboxAheadIdx(i), sbox)

\* lines 59 and 68
SboxJ(seed, i) == XorUsize(seed, i) % 256

\* slice::swap
Swap(a, i, j) == Put(Put(a, i, At(a, j)), j, At(a, i))

\* lines 60-62
SboxMix1(sbox, bytes, i, j) ==
    LET a == Put(sbox, i, Xor(At(sbox, i), At(bytes, KeyIdx(i, bytes))))
        b == Put(a, j, Xor(At(a, j), At(bytes, KeyIdx(i + 1, bytes))))
    IN  Swap(b, i, j)

SboxMix1Safe(sbox, bytes, i, j) ==
    /\ Len(bytes) > 0
    /\ InBounds(i, sbox)
    /\ InBounds(j, sbox)
    /\ InBounds(KeyIdx(i, bytes), bytes)
    /\ InBounds(KeyIdx(i + 1, bytes), bytes)

\* sbox[(i * 3) % 256] of line 67
SboxTripleIdx(i) == (i * 3) % 256

\* line 67
SboxSeed2(seed, sbox, i) == Xor(seed, At(sbox, SboxTripleIdx(i)))

SboxSeed2Safe(sbox, i) == InBounds(SboxTripleIdx(i), sbox)

\* i + (i.wrapping_mul(11) ^ i) of line 70
SboxSpreadIdx(i) == i + XorUsize(WrapMulUsize(i, 11), i)

\* lines 69-71
SboxMix2(sbox, bytes, i, j) ==
    LET a == Put(sbox, i, Xor(At(sbox, i), At(bytes, KeyIdx(i + 16, bytes))))
        b == Put(a, j, Xor(At(a, j), At(bytes, KeyIdx(SboxSpreadIdx(i), bytes))))
    IN  Swap(b, i, j)

SboxMix2Safe(sbox, bytes, i, j) ==
    /\ Len(bytes) > 0
    /\ InBounds(i, sbox)
    /\ InBounds(j, sbox)
    /\ InBounds(KeyIdx(i + 16, bytes), bytes)
    /\ InBounds(KeyIdx(SboxSpreadIdx(i), bytes), bytes)

\* one iteration of a pass, on the pair <<seed, sbox>>; the loops count i down
\* from 255 to 1, so step n of a pass has i = 255 - n
SboxIter1(p, i, bytes) ==
    LET seed == SboxSeed1(p[1], p[2], bytes, i)
    IN  <<seed, SboxMix1(p[2], bytes, i, SboxJ(seed, i))>>

SboxIter2(p, i, bytes) ==
    LET seed == SboxSeed2(p[1], p[2], i)
    IN  <<seed, SboxMix2(p[2], bytes, i, SboxJ(seed, i))>>

init_sbox(bytes) ==
    LET p1 == ForRange(LAMBDA p, n : SboxIter1(p, 255 - n, bytes),
                       <<SeedInit(bytes), IdentitySbox>>, 0, 255)
        p2 == ForRange(LAMBDA p, n : SboxIter2(p, 255 - n, bytes), p1, 0, 255)
    IN  p2[2]

(***************************************************************************)
(* round, lines 94-137.  One operator per statement of the loop bodies,    *)
(* each with the bounds checks of the indexings it makes.                  *)
(***************************************************************************)
\* line 95
RoundLen(bytes) == IF Len(bytes) < StateLen THEN Len(bytes) ELSE StateLen

\* line 99
MirrorIdx(st, i) == Len(st) - 1 - i

\* line 100
P1Mirror(st, i) == Put(st, i, Xor(At(st, i), rotl(At(st, MirrorIdx(st, i)), 7)))

P1MirrorSafe(st, i) == InBounds(i, st) /\ InBounds(MirrorIdx(st, i), st)

P1AddIdxSame(i) == i % 8

\* state[(i + 1) % 8] of line 101
P1AddIdx(i) == (i + 1) % 8

\* line 101
P1MulAdd(st, i) ==
    Put(st, i, WrapAdd(WrapMul(At(st, i), MulConst), At(st, P1AddIdx(i))))

P1MulAddSafe(st, i) == InBounds(i, st) /\ InBounds(P1AddIdx(i), st)

\* block[(i + 4) % len] of line 102
P1BlockIdx(i, len) == (i + 4) % len

\* line 102
P1Block(st, i, block, len) ==
    Put(st, i, Xor(At(st, i), rotl(At(block, P1BlockIdx(i, len)), 3)))

P1BlockSafe(st, i, block, len) ==
    len > 0 /\ InBounds(i, st) /\ InBounds(P1BlockIdx(i, len), block)

P1IdxUnreduced(st, i, len) ==
    XorUsize(i % len, WrapMulUsize(len, At(st, i % len)))

\* line 104
P1Idx(st, i, len) ==
    XorUsize(i % len, WrapMulUsize(len, At(st, i % len))) % 64

\* line 105, with the idx of line 104
P1Rot(st, i, block, sbox, len) ==
    LET idx == P1Idx(st, i, len)
    IN  Put(st, i, rotl(At(st, i), WrapAdd(At(block, idx), At(sbox, idx)) % 8))

P1RotSafe(st, i, block, sbox, len) ==
    /\ len > 0
    /\ InBounds(i, st)
    /\ InBounds(i % len, st)
    /\ InBounds(P1Idx(st, i, len), block)
    /\ InBounds(P1Idx(st, i, len), sbox)

\* state[(i + 7) % state.len()] of line 106
P1NextIdx(st, i) == (i + 7) % Len(st)

\* line 106
P1Next(st, i) == Put(st, i, Xor(At(st, i), rotl(At(st, P1NextIdx(st, i)), 3)))

P1NextSafe(st, i) == InBounds(i, st) /\ InBounds(P1NextIdx(st, i), st)

\* line 107
P1Subst(st, i, sbox) == Put(st, i, sbox_lookup(sbox, At(st, i)))

P1SubstSafe(st, i, sbox) == InBounds(i, st) /\ InBounds(At(st, i), sbox)

\* lines 99-107
Pass1Iter(st, i, block, sbox, len) ==
    P1Subst(P1Next(P1Rot(P1Block(P1MulAdd(P1Mirror(st, i), i), i, block, len),
                         i, block, sbox, len), i), i, sbox)

\* state[(i + 3) % state.len()] of lines 112, 127 and 130
Ahead3Idx(st, i) == (i + 3) % Len(st)

\* line 112
Pass2Iter(st, i) == Put(st, i, Xor(At(st, i), At(st, Ahead3Idx(st, i))))

Pass2Safe(st, i) == InBounds(i, st) /\ InBounds(Ahead3Idx(st, i), st)

\* sbox[(bytes.len() - 1) % 256] of line 117
SaltSboxIdx(bytes) == LastIdx(bytes) % 256

\* lines 116-118
SaltInit(sbox, bytes) ==
    RotateLeft(WrapAdd(At(bytes, 0),
                       WrapMul(At(bytes, LastIdx(bytes)),
                               At(sbox, SaltSboxIdx(bytes)))), 3)

SaltInitSafe(sbox, bytes) ==
    /\ InBounds(0, bytes)
    /\ InBounds(LastIdx(bytes), bytes)
    /\ InBounds(SaltSboxIdx(bytes), sbox)

\* bytes[i.wrapping_add(bytes.len() - 1) % bytes.len()] of line 121
SaltKeyIdx(bytes, i) == KeyIdx(WrapAddUsize(i, LastIdx(bytes)), bytes)

\* line 121
SaltNext(salt, bytes, i) ==
    Xor(salt, WrapMul(salt, At(bytes, SaltKeyIdx(bytes, i))))

\* line 122
P3Inject(st, i, salt) == Put(st, i, Xor(At(st, i), rotl(salt, i % 8)))

Pass3Safe(st, i, bytes) ==
    /\ Len(bytes) > 0
    /\ LastIdx(bytes) >= 0
    /\ InBounds(SaltKeyIdx(bytes, i), bytes)
    /\ InBounds(i, st)

\* lines 121-122 on the pair <<salt, state>>
Pass3Iter(p, i, bytes) ==
    LET salt == SaltNext(p[1], bytes, i)
    IN  <<salt, P3Inject(p[2], i, salt)>>

\* line 127
P4Xor(st, i) == Put(st, i, Xor(At(st, i), At(st, Ahead3Idx(st, i))))

P4XorSafe(st, i) == InBounds(i, st) /\ InBounds(Ahead3Idx(st, i), st)

\* state[(i + 5) % state.len()] of line 129
Ahead5Idx(st, i) == (i + 5) % Len(st)

\* lines 128-131
P4MulRot(st, i) ==
    Put(st, i, RotateLeft(WrapMul(WrapAdd(At(st, i), At(st, Ahead5Idx(st, i))),
                                  At(st, Ahead3Idx(st, i))), 5))

P4MulRotSafe(st, i) ==
    /\ InBounds(i, st)
    /\ InBounds(Ahead5Idx(st, i), st)
    /\ InBounds(Ahead3Idx(st, i), st)

\* line 133
P4Idx(st, i, len) ==
    XorUsize(i % len, WrapMulUsize(len, At(st, (i + 3) % len))) % 64

\* line 134, with the idx of line 133
P4Rot(st, i, block, len) ==
    Put(st, i, rotl(At(st, i), (At(block, P4Idx(st, i, len)) % 8) + 1))

P4RotSafe(st, i, block, len) ==
    /\ len > 0
    /\ InBounds(i, st)
    /\ InBounds((i + 3) % len, st)
    /\ InBounds(P4Idx(st, i, len), block)

\* state[(i + 4) % state.len()] of line 135
Ahead4Idx(st, i) == (i + 4) % Len(st)

\* line 135
P4Next(st, i) == Put(st, i, Xor(At(st, i), rotl(At(st, Ahead4Idx(st, i)), 4)))

P4NextSafe(st, i) == InBounds(i, st) /\ InBounds(Ahead4Idx(st, i), st)

\* lines 127-135
Pass4Iter(st, i, block, len) ==
    P4Next(P4Rot(P4MulRot(P4Xor(st, i), i), i, block, len), i)

round(st, block, sbox, bytes) ==
    LET len == RoundLen(bytes)
        a == ForRange(LAMBDA x, i : Pass1Iter(x, i, block, sbox, len), st, 0, Len(st))
        b == ForRange(Pass2Iter, a, 0, Len(a))
        c == ForRange(LAMBDA x, i : Pass3Iter(x, i, bytes),
                      <<SaltInit(sbox, bytes), b>>, 0, Len(b))[2]
    IN  ForRange(LAMBDA x, i : Pass4Iter(x, i, block, len), c, 0, Len(c))

(***************************************************************************)
(* end_mix, lines 150-156, on one pair (s, b) of state and block bytes.    *)
(***************************************************************************)
\* line 152
EndXor(s, b) == Xor(s, b)

\* line 153
EndRot(s, sbox) == rotl(s, At(sbox, s))

EndRotSafe(s, sbox) == InBounds(s, sbox)

\* line 154
EndMulXor(s, b) == Xor(WrapMul(WrapAdd(s, b), 3), b)

EndMixByte(s, b, sbox) == EndMulXor(EndRot(EndXor(s, b), sbox), b)

\* zip stops at the shorter of the two; both have 64 elements
end_mix(st, block, sbox) ==
    [k \in 1..(IF Len(st) < Len(block) THEN Len(st) ELSE Len(block)) |->
        EndMixByte(st[k], block[k], sbox)] \o <<>>

(***************************************************************************)
(* main, lines 160-200.                                                    *)
(***************************************************************************)
NormalizeToOne(input) ==
    LET b == AsBytes(Trim(input))
    IN  IF b = <<>> THEN <<1>> ELSE b

\* lines 167-170
Normalize(input) ==
    LET b == AsBytes(Trim(input))
    IN  IF b = <<>> THEN <<0>> ELSE b

InitStateLowOnly(len) ==
    LET zero == [k \in 1..StateLen |-> 0] \o <<>>
    IN  Put(zero, 0, Xor(At(zero, 0), AsU8(len)))

\* lines 173-175, from bytes.len()
InitState(len) ==
    LET zero == [k \in 1..StateLen |-> 0] \o <<>>
        s0 == Put(zero, 0, Xor(At(zero, 0), AsU8(len)))
    IN  Put(s0, 1, Xor(At(s0, 1), AsU8(len \div 256)))

\* lines 178-180
BuildBlock(bytes, fill) ==
    [k \in 1..StateLen |-> IF k <= RoundLen(bytes) THEN bytes[k] ELSE fill] \o <<>>

ExtraRoundsPlainSum(bytes) ==
    ((At(bytes, 0) + At(bytes, LastIdx(bytes))) % 255) % 1000

\* line 186
ExtraRounds(bytes) ==
    (WrapAdd(At(bytes, 0), At(bytes, LastIdx(bytes))) % 255) % 1000

\* line 187
NumRounds(bytes) == BaseRounds + ExtraRounds(bytes)

HexDigits == <<"0", "1", "2", "3", "4", "5", "6", "7",
               "8", "9", "a", "b", "c", "d", "e", "f">>

HexUnpadded(b) ==
    IF b < 16 THEN <<HexDigits[b + 1]>>
    ELSE <<HexDigits[(b \div 16) + 1], HexDigits[(b % 16) + 1]>>

\* format!("{:02x}", b): at least two digits, zero-padded, most significant first
Hex02(b) ==
    IF b < 16 THEN <<"0", HexDigits[b + 1]>>
    ELSE <<HexDigits[(b \div 16) + 1], HexDigits[(b % 16) + 1]>>

\* line 198: the digits of the bytes, concatenated in order
RECURSIVE HexState(_)
HexState(st) ==
    IF st = <<>> THEN <<>>
    ELSE IF Len(st) = 1 THEN Hex02(st[1])
    ELSE LET mid == Len(st) \div 2
         IN  HexState(SubSeq(st, 1, mid)) \o HexState(SubSeq(st, mid + 1, Len(st)))

(***************************************************************************)
(* main as a whole: one step per statement group of main and one per       *)
(* iteration of the loop of line 190.  The loop runs at least 10000 times, *)
(* so here the accumulator is carried as the description of how it was     *)
(* made: acc = [init, rounds, mixes] stands for the array that lines       *)
(* 173-175 built as `init`, after `rounds` calls of round and `mixes`      *)
(* calls of end_mix with this run's block, sbox and bytes.  round and      *)
(* end_mix only write the accumulator, so nothing else of main depends on  *)
(* its bytes; the bytes themselves are followed, statement by statement,   *)
(* in the pipeline specification below.                                    *)
(***************************************************************************)
\* What standard input holds, case k.  Case 1 is a stream already at its end.
StdinStream(k) ==
    CASE k = 1 -> <<>>
      [] k = 2 -> <<0, LF>>
      [] k = 3 -> <<233, LF>>
      [] k = 4 -> <<LF>>
      [] k = 5 -> <<32, 97, 32, LF>>
      [] k = 6 -> <<126, 126>>
      [] k = 7 -> <<86, 233, LF>>
      [] OTHER -> <<97 + (k % 26), 8364, LF, 98>>

\* main: the position in main, the String read_line fills, how read_line
\* returned and the count it returned, the locals bytes, block, sbox and
\* num_rounds, the accumulator `state` (as described above), the iterations
\* of the loop of line 190 so far, and what was printed.
VARIABLES pc, input, read_result, read_n, bytes, acc, block, sbox,
          num_rounds, rounds_done, stdout

mvars == <<pc, input, read_result, read_n, bytes, acc, block, sbox,
           num_rounds, rounds_done, stdout>>

\* the pipeline, statement by statement: the line about to run, the loop
\* index i, the round being run, the locals of init_sbox (seed, j) and of
\* round (salt), the arrays, the accumulator as end_mix received it, and the
\* digest string
VARIABLES q_pc, q_i, q_round, q_bytes, q_state, q_block, q_sbox, q_seed, q_j,
          q_salt, q_pre, q_hex

qvars == <<q_pc, q_i, q_round, q_bytes, q_state, q_block, q_sbox, q_seed, q_j,
           q_salt, q_pre, q_hex>>

\* lines 173-175 alone: a length and the accumulator built from it
VARIABLES l_len, l_state

lvars == <<l_len, l_state>>

vars == <<mvars, qvars, lvars>>

Prompt == "Input: "

Banner == "Zinc-LHA Hash: "

MainInit ==
    /\ pc = "start"
    /\ input = <<>>
    /\ read_result = "pending"
    /\ read_n = 0
    /\ bytes = <<>>
    /\ acc = [init |-> <<>>, rounds |-> 0, mixes |-> 0]
    /\ block = <<>>
    /\ sbox = <<>>
    /\ num_rounds = 0
    /\ rounds_done = 0
    /\ stdout = <<>>

\* lines 162-165, read_line returning Ok(n): a line, or n = 0 at end-of-stream
ReadLineOk ==
    /\ pc = "start"
    /\ \E k \in 1..MaxStdin :
          /\ input' = ReadLine(StdinStream(k))
          /\ read_n' = Len(AsBytes(ReadLine(StdinStream(k))))
    /\ read_result' = "ok"
    /\ stdout' = Append(stdout, [text |-> Prompt])
    /\ pc' = "normalize"
    /\ UNCHANGED <<bytes, acc, block, sbox, num_rounds, rounds_done>>

ReadLineErrIgnored ==
    /\ pc = "start"
    /\ read_result' = "err"
    /\ stdout' = Append(stdout, [text |-> Prompt])
    /\ pc' = "normalize"
    /\ UNCHANGED <<input, read_n, bytes, acc, block, sbox, num_rounds, rounds_done>>

\* lines 162-165, read_line returning Err (an I/O error, or bytes that are not
\* UTF-8): expect panics
ReadLineErr ==
    /\ pc = "start"
    /\ read_result' = "err"
    /\ stdout' = Append(stdout, [text |-> Prompt])
    /\ pc' = "panicked"
    /\ UNCHANGED <<input, read_n, bytes, acc, block, sbox, num_rounds, rounds_done>>

\* lines 167-170
NormalizeInput ==
    /\ pc = "normalize"
    /\ bytes' = Normalize(input)
    /\ pc' = "setup"
    /\ UNCHANGED <<input, read_result, read_n, acc, block, sbox, num_rounds,
                   rounds_done, stdout>>

\* lines 172-187
Setup ==
    /\ pc = "setup"
    /\ acc' = [init |-> InitState(Len(bytes)), rounds |-> 0, mixes |-> 0]
    /\ block' = BuildBlock(bytes, At(InitState(Len(bytes)), 0))
    /\ sbox' = init_sbox(bytes)
    /\ num_rounds' = NumRounds(bytes)
    /\ pc' = "rounds"
    /\ UNCHANGED <<input, read_result, read_n, bytes, rounds_done, stdout>>

LoopDoneOneEarly(done, n) == done + 1 >= n

\* for _ in 0..num_rounds: whether the range is exhausted
LoopDone(done, n) == done >= n

\* lines 190-192, one iteration
RoundStep ==
    /\ pc = "rounds"
    /\ ~LoopDone(rounds_done, num_rounds)
    /\ acc' = [acc EXCEPT !.rounds = @ + 1]
    /\ rounds_done' = rounds_done + 1
    /\ UNCHANGED <<pc, input, read_result, read_n, bytes, block, sbox, num_rounds,
                   stdout>>

\* line 195, once the loop is left
Finalize ==
    /\ pc = "rounds"
    /\ LoopDone(rounds_done, num_rounds)
    /\ acc' = [acc EXCEPT !.mixes = @ + 1]
    /\ pc' = "encode"
    /\ UNCHANGED <<input, read_result, read_n, bytes, block, sbox, num_rounds,
                   rounds_done, stdout>>

\* lines 198-199: one line, the banner and then the digits of the accumulator
Encode ==
    /\ pc = "encode"
    /\ stdout' = Append(stdout, [text |-> Banner, hex_of |-> acc])
    /\ pc' = "done"
    /\ UNCHANGED <<input, read_result, read_n, bytes, acc, block, sbox,
                   num_rounds, rounds_done>>

MainNext ==
    \/ ReadLineOk
    \/ ReadLineErr
    \/ NormalizeInput
    \/ Setup
    \/ RoundStep
    \/ Finalize
    \/ Encode

MainIdle ==
    /\ pc = "idle"
    /\ input = <<>>
    /\ read_result = "pending"
    /\ read_n = 0
    /\ bytes = <<>>
    /\ acc = [init |-> <<>>, rounds |-> 0, mixes |-> 0]
    /\ block = <<>>
    /\ sbox = <<>>
    /\ num_rounds = 0
    /\ rounds_done = 0
    /\ stdout = <<>>

(***************************************************************************)
(* The pipeline, statement by statement, on real bytes: init_sbox, then    *)
(* the first MaxRounds rounds, then end_mix and the hexadecimal string.    *)
(* q_pc names the source line about to run.  A failed bounds check or a    *)
(* division by zero is a panic.                                            *)
(***************************************************************************)
\* a line of n printable characters, some of them two bytes long in UTF-8
LongLine(n) ==
    [k \in 1..n |-> IF k % 9 = 0 THEN 233 ELSE 33 + ((k * 7) % 90)] \o <<LF>>

PipeStream(k) ==
    CASE k = 1 -> <<>>
      [] k = 2 -> <<97, LF>>
      [] k = 3 -> <<233, LF>>
      [] k = 4 -> LongLine(70)
      [] k = 5 -> <<32, 97, 98, 99, 32, LF>>
      [] k = 6 -> LongLine(58)
      [] k = 7 -> LongLine(270)
      [] k = 8 -> <<86, 233, LF>>
      [] OTHER -> LongLine(k)

PipeInputs == {Normalize(ReadLine(PipeStream(k))) : k \in 1..MaxPipeInput}

\* the rounds the pipeline specification runs of the loop of line 190
PipeRounds(b) == IF NumRounds(b) < MaxRounds THEN NumRounds(b) ELSE MaxRounds

PipeInit ==
    /\ q_pc = "L43"
    /\ q_bytes \in PipeInputs
    /\ q_state = InitState(Len(q_bytes))
    /\ q_block = BuildBlock(q_bytes, At(InitState(Len(q_bytes)), 0))
    /\ q_sbox = <<>>
    /\ q_i = 0
    /\ q_round = 0
    /\ q_seed = 0
    /\ q_j = 0
    /\ q_salt = 0
    /\ q_pre = <<>>
    /\ q_hex = <<>>

QPanic ==
    /\ q_pc' = "panic"
    /\ UNCHANGED <<q_i, q_round, q_bytes, q_state, q_block, q_sbox, q_seed, q_j,
                   q_salt, q_pre, q_hex>>

\* lines 43-51
SboxStart ==
    /\ q_pc = "L43"
    /\ IF SeedInitSafe(q_bytes)
       THEN /\ q_sbox' = IdentitySbox
            /\ q_seed' = SeedInit(q_bytes)
            /\ q_i' = 255
            /\ q_pc' = "L55"
            /\ UNCHANGED <<q_round, q_bytes, q_state, q_block, q_j, q_salt, q_pre, q_hex>>
       ELSE QPanic

\* lines 55-59
Sbox1Seed ==
    /\ q_pc = "L55"
    /\ IF SboxSeed1Safe(q_sbox, q_bytes, q_i)
       THEN /\ q_seed' = SboxSeed1(q_seed, q_sbox, q_bytes, q_i)
            /\ q_j' = SboxJ(SboxSeed1(q_seed, q_sbox, q_bytes, q_i), q_i)
            /\ q_pc' = "L60"
            /\ UNCHANGED <<q_i, q_round, q_bytes, q_state, q_block, q_sbox, q_salt,
                           q_pre, q_hex>>
       ELSE QPanic

\* lines 60-62 and the step of the loop of line 54
Sbox1Mix ==
    /\ q_pc = "L60"
    /\ IF SboxMix1Safe(q_sbox, q_bytes, q_i, q_j)
       THEN /\ q_sbox' = SboxMix1(q_sbox, q_bytes, q_i, q_j)
            /\ IF q_i > 1 THEN q_i' = q_i - 1 /\ q_pc' = "L55"
                          ELSE q_i' = 255 /\ q_pc' = "L67"
            /\ UNCHANGED <<q_round, q_bytes, q_state, q_block, q_seed, q_j, q_salt,
                           q_pre, q_hex>>
       ELSE QPanic

\* lines 67-68
Sbox2Seed ==
    /\ q_pc = "L67"
    /\ IF SboxSeed2Safe(q_sbox, q_i)
       THEN /\ q_seed' = SboxSeed2(q_seed, q_sbox, q_i)
            /\ q_j' = SboxJ(SboxSeed2(q_seed, q_sbox, q_i), q_i)
            /\ q_pc' = "L69"
            /\ UNCHANGED <<q_i, q_round, q_bytes, q_state, q_block, q_sbox, q_salt,
                           q_pre, q_hex>>
       ELSE QPanic

\* lines 69-71 and the step of the loop of line 66; after it, init_sbox
\* returns and the loop of line 190 starts
Sbox2Mix ==
    /\ q_pc = "L69"
    /\ IF SboxMix2Safe(q_sbox, q_bytes, q_i, q_j)
       THEN /\ q_sbox' = SboxMix2(q_sbox, q_bytes, q_i, q_j)
            /\ IF q_i > 1 THEN q_i' = q_i - 1 /\ q_pc' = "L67"
                          ELSE q_i' = 0 /\ q_pc' = "L100"
            /\ UNCHANGED <<q_round, q_bytes, q_state, q_block, q_seed, q_j, q_salt,
                           q_pre, q_hex>>
       ELSE QPanic

\* a statement of round that writes state[i] and goes on to line `to`
RoundLine(from, to, safe, st) ==
    /\ q_pc = from
    /\ IF safe
       THEN /\ q_state' = st
            /\ q_pc' = to
            /\ UNCHANGED <<q_i, q_round, q_bytes, q_block, q_sbox, q_seed, q_j,
                           q_salt, q_pre, q_hex>>
       ELSE QPanic

\* the last statement of a loop body of round: it writes state[i], then the
\* loop goes back to line `again` with i + 1 or on to line `to`
RoundLast(from, again, to, safe, st, salt) ==
    /\ q_pc = from
    /\ IF safe
       THEN /\ q_state' = st
            /\ q_salt' = salt
            /\ IF q_i + 1 < Len(q_state) THEN q_i' = q_i + 1 /\ q_pc' = again
                                         ELSE q_i' = 0 /\ q_pc' = to
            /\ UNCHANGED <<q_round, q_bytes, q_block, q_sbox, q_seed, q_j, q_pre, q_hex>>
       ELSE QPanic

QLen == RoundLen(q_bytes)

Line100 == RoundLine("L100", "L101", P1MirrorSafe(q_state, q_i), P1Mirror(q_state, q_i))

Line101 == RoundLine("L101", "L102", P1MulAddSafe(q_state, q_i), P1MulAdd(q_state, q_i))

Line102 ==
    RoundLine("L102", "L104", P1BlockSafe(q_state, q_i, q_block, QLen),
              P1Block(q_state, q_i, q_block, QLen))

Line104 ==
    RoundLine("L104", "L106", P1RotSafe(q_state, q_i, q_block, q_sbox, QLen),
              P1Rot(q_state, q_i, q_block, q_sbox, QLen))

Line106 == RoundLine("L106", "L107", P1NextSafe(q_state, q_i), P1Next(q_state, q_i))

Line107 ==
    RoundLast("L107", "L100", "L112", P1SubstSafe(q_state, q_i, q_sbox),
              P1Subst(q_state, q_i, q_sbox), q_salt)

Line112 ==
    RoundLast("L112", "L112", "L116", Pass2Safe(q_state, q_i),
              Pass2Iter(q_state, q_i), q_salt)

\* lines 116-118
Line116 ==
    /\ q_pc = "L116"
    /\ IF SaltInitSafe(q_sbox, q_bytes)
       THEN /\ q_salt' = SaltInit(q_sbox, q_bytes)
            /\ q_pc' = "L121"
            /\ UNCHANGED <<q_i, q_round, q_bytes, q_state, q_block, q_sbox, q_seed,
                           q_j, q_pre, q_hex>>
       ELSE QPanic

\* lines 121-122
Line121 ==
    RoundLast("L121", "L121", "L127", Pass3Safe(q_state, q_i, q_bytes),
              Pass3Iter(<<q_salt, q_state>>, q_i, q_bytes)[2],
              Pass3Iter(<<q_salt, q_state>>, q_i, q_bytes)[1])

Line127 == RoundLine("L127", "L128", P4XorSafe(q_state, q_i), P4Xor(q_state, q_i))

Line128 == RoundLine("L128", "L133", P4MulRotSafe(q_state, q_i), P4MulRot(q_state, q_i))

Line133 ==
    RoundLine("L133", "L135", P4RotSafe(q_state, q_i, q_block, QLen),
              P4Rot(q_state, q_i, q_block, QLen))

\* line 135; after the last position round returns, and the loop of line 190
\* calls it again or main goes on to end_mix
Line135 ==
    /\ q_pc = "L135"
    /\ IF P4NextSafe(q_state, q_i)
       THEN /\ q_state' = P4Next(q_state, q_i)
            /\ IF q_i + 1 < Len(q_state)
               THEN /\ q_i' = q_i + 1 /\ q_pc' = "L127"
                    /\ UNCHANGED <<q_round, q_pre>>
               ELSE /\ q_i' = 0
                    /\ q_round' = q_round + 1
                    /\ IF q_round + 1 < PipeRounds(q_bytes)
                       THEN q_pc' = "L100" /\ q_pre' = q_pre
                       ELSE q_pc' = "L152" /\ q_pre' = P4Next(q_state, q_i)
            /\ UNCHANGED <<q_bytes, q_block, q_sbox, q_seed, q_j, q_salt, q_hex>>
       ELSE QPanic

\* line 152
Line152 ==
    RoundLine("L152", "L153", InBounds(q_i, q_state) /\ InBounds(q_i, q_block),
              Put(q_state, q_i, EndXor(At(q_state, q_i), At(q_block, q_i))))

\* line 153
Line153 ==
    RoundLine("L153", "L154",
              InBounds(q_i, q_state) /\ EndRotSafe(At(q_state, q_i), q_sbox),
              Put(q_state, q_i, EndRot(At(q_state, q_i), q_sbox)))

\* line 154
Line154 ==
    RoundLast("L154", "L152", "L198", InBounds(q_i, q_state) /\ InBounds(q_i, q_block),
              Put(q_state, q_i, EndMulXor(At(q_state, q_i), At(q_block, q_i))), q_salt)

\* line 198
Line198 ==
    /\ q_pc = "L198"
    /\ q_hex' = HexState(q_state)
    /\ q_pc' = "done"
    /\ UNCHANGED <<q_i, q_round, q_bytes, q_state, q_block, q_sbox, q_seed, q_j,
                   q_salt, q_pre>>

PipeNext ==
    \/ SboxStart
    \/ Sbox1Seed
    \/ Sbox1Mix
    \/ Sbox2Seed
    \/ Sbox2Mix
    \/ Line100
    \/ Line101
    \/ Line102
    \/ Line104
    \/ Line106
    \/ Line107
    \/ Line112
    \/ Line116
    \/ Line121
    \/ Line127
    \/ Line128
    \/ Line133
    \/ Line135
    \/ Line152
    \/ Line153
    \/ Line154
    \/ Line198

PipeIdle ==
    /\ q_pc = "idle"
    /\ q_bytes = <<>>
    /\ q_state = <<>>
    /\ q_block = <<>>
    /\ q_sbox = <<>>
    /\ q_i = 0
    /\ q_round = 0
    /\ q_seed = 0
    /\ q_j = 0
    /\ q_salt = 0
    /\ q_pre = <<>>
    /\ q_hex = <<>>

(***************************************************************************)
(* Lines 173-175 alone, for lengths up to and beyond 65536.                *)
(***************************************************************************)
LenBase(k) ==
    CASE k <= 30 -> k
      [] k = 31 -> 255
      [] k = 32 -> 256
      [] k = 33 -> 257
      [] k = 34 -> 511
      [] k = 35 -> 4660
      [] k = 36 -> 65535
      [] OTHER -> 1000 * k

Lengths == {LenBase(k) + 65536 * w : k \in 1..MaxLenBase, w \in 0..MaxLenWrap}

LenInit == l_len \in Lengths /\ l_state = <<>>

ApplyInitState ==
    /\ l_state = <<>>
    /\ l_state' = InitState(l_len)
    /\ UNCHANGED l_len

LenIdle == l_len = 0 /\ l_state = <<>>

(***************************************************************************)
(* The specifications.                                                     *)
(***************************************************************************)
Init == MainInit /\ PipeIdle /\ LenIdle

Next == MainNext /\ UNCHANGED <<qvars, lvars>>

Spec == Init /\ [][Next]_vars

\* main runs on one thread that nothing suspends: a step that can be taken is taken
FairSpec == Spec /\ WF_vars(Next)

InitPipe == MainIdle /\ PipeInit /\ LenIdle

NextPipe == PipeNext /\ UNCHANGED <<mvars, lvars>>

SpecPipe == InitPipe /\ [][NextPipe]_vars

InitLen == MainIdle /\ PipeIdle /\ LenInit

NextLen == ApplyInitState /\ UNCHANGED <<mvars, qvars>>

SpecLen == InitLen /\ [][NextLen]_vars

(***************************************************************************)
(* The accumulator that a description [init, rounds, mixes] stands for.    *)
(***************************************************************************)
Accumulator(a, blk, sb, b) ==
    LET r == ForRange(LAMBDA x, n : round(x, blk, sb, b), a.init, 0, a.rounds)
    IN  IF a.mixes = 0 THEN r ELSE end_mix(r, blk, sb)

\* the statements of the pipeline specification compute what the calls of
\* round and end_mix compute
PipeAgreesWithCalls ==
    /\ (q_pc = "L100" /\ q_i = 0) =>
          q_state = Accumulator([init |-> InitState(Len(q_bytes)),
                                 rounds |-> q_round, mixes |-> 0],
                                q_block, q_sbox, q_bytes)
    /\ q_pc = "L100" /\ q_i = 0 /\ q_round = 0 => q_sbox = init_sbox(q_bytes)
    /\ q_pc = "L198" =>
          q_state = Accumulator([init |-> InitState(Len(q_bytes)),
                                 rounds |-> q_round, mixes |-> 1],
                                q_block, q_sbox, q_bytes)

(***************************************************************************)
(* The claims.                                                             *)
(***************************************************************************)
FirstByte == bytes[1]

LastByte == bytes[Len(bytes)]

DigestPrinted == \E k \in 1..Len(stdout) : stdout[k].text = Banner

\* C1, as amended: main applies round() exactly
\* 10000 + (((f + l) mod 256) mod 255) mod 1000 times, f and l the first and
\* last byte of the input: the sum wraps to eight bits before mod 255.
C1_RoundCount ==
    /\ pc \in {"rounds", "encode", "done"} =>
          num_rounds = 10000 + ((((FirstByte + LastByte) % 256) % 255) % 1000)
    /\ pc = "rounds" => acc.rounds = rounds_done /\ acc.rounds <= num_rounds
    /\ pc \in {"encode", "done"} =>
          acc.rounds = 10000 + ((((FirstByte + LastByte) % 256) % 255) % 1000)

\* C1 as stated: the count is 10000 + ((f + l) mod 255) mod 1000 with f + l the
\* plain sum 0..510.
C1_PlainSum ==
    pc \in {"encode", "done"} =>
        acc.rounds = 10000 + (((FirstByte + LastByte) % 255) % 1000)

\* a finished run whose first and last byte add up to more than 255
C1_Witness ==
    pc = "done" /\ FirstByte + LastByte >= 256 /\ acc.rounds = num_rounds

\* C2, as amended: when read_line fails, main panics: no round, no end_mix and
\* no digest line, in any later state.  (End-of-stream before any byte is not
\* a failure: read_line returns Ok(0).)
C2_ReadErrorFatal ==
    read_result = "err" =>
        /\ pc = "panicked"
        /\ acc.rounds = 0
        /\ acc.mixes = 0
        /\ ~DigestPrinted

\* C2 as stated: a failed read and an end-of-stream before any line both end
\* the run with no round, no finalizer and no digest line.
C2_ErrorOrEofFatal ==
    (read_result = "err" \/ (read_result = "ok" /\ read_n = 0)) =>
        /\ acc.rounds = 0
        /\ acc.mixes = 0
        /\ ~DigestPrinted

C2_Witness ==
    read_result = "err" /\ pc = "panicked" /\ stdout = <<[text |-> Prompt]>>

\* init_sbox of the single byte 0x00
ZeroSbox == <<
    219, 225, 124, 245, 232,  67, 150, 172,  81,  95, 173, 194, 166, 182,  50, 195,
    127,  43, 125,  62, 152,  45, 213, 148, 134,  76, 128, 102, 149,   6, 244, 168,
    118,  37, 111, 101, 170, 186, 193,  36, 181,  92,  58,  90,  12, 187, 203, 212,
    100,  61, 223, 178,  99,  88, 169,  18, 141,  98, 184, 155, 197, 218, 154,  73,
    211, 119, 151, 163,  40,  57,  17, 234,  47, 144,  26,  23,  51, 108, 117,  63,
    202, 157, 113, 209, 122,  49, 215,  33,   3, 105,  39, 110, 199, 177,  87, 167,
    253, 180, 229,  80, 133,  13, 112,  65,  71, 246, 227, 200, 228,  55,  78, 161,
    201,  93,   2, 192, 255,  28, 249, 136,   9, 174,  69,  84,   1,  54, 236,  68,
    190,  96, 129, 107,  64, 222,  16,  48,  82,  22,  56, 230, 121, 147, 241, 120,
     79, 196,  24,  89,  53,  94, 143, 114, 216, 206, 158, 183,   4,  15,  31, 252,
    235, 142, 138,  11, 188, 159,  10, 109, 198, 191,  34,  30, 137,  77,  59,  66,
    250,  97,  74, 208, 238, 189,  83, 214, 224,  21, 116, 171, 164, 135,   8, 233,
    130,  20, 207,  52,  25, 165, 185, 176,  14, 160, 220,  32, 226, 243, 240,   5,
     27,  75,  85, 221, 103, 106,   7,  41, 239, 153, 162,  72, 205, 145,  35,  19,
     86, 217,  70, 156, 131, 242,  60, 237, 146, 179,  29,  38, 115, 231, 175,   0,
    139, 132,  44, 251,  42, 140, 126, 123, 204,  91, 104, 247, 254, 248, 210,  46>>

ZeroInit == [k \in 1..64 |-> IF k = 1 THEN 1 ELSE 0]

ZeroBlock == [k \in 1..64 |-> IF k = 1 THEN 0 ELSE 1]

ZeroDigest == [init |-> ZeroInit, rounds |-> 10000, mixes |-> 1]

\* C3: a run on a zero-length input and a run on the single byte 0x00 have the
\* same bytes, block, initial accumulator, table and round count, and print the
\* same digest: in both, each of them is the one value given here.
C3_EmptyAsZeroByte ==
    (read_result = "ok" /\ AsBytes(Trim(input)) \in {<<>>, <<0>>}) =>
        /\ pc \in {"setup", "rounds", "encode", "done"} => bytes = <<0>>
        /\ pc \in {"rounds", "encode", "done"} =>
              /\ acc.init = ZeroInit
              /\ block = ZeroBlock
              /\ sbox = ZeroSbox
              /\ num_rounds = 10000
        /\ pc = "done" =>
              /\ acc = ZeroDigest
              /\ stdout = <<[text |-> Prompt], [text |-> Banner, hex_of |-> ZeroDigest]>>

\* a finished run on a zero-length input
C3_Witness == pc = "done" /\ read_result = "ok" /\ Trim(input) = <<>>

\* init_sbox has returned
SboxReturned == q_pc \in {"L100", "L101", "L102", "L104", "L106", "L107", "L112",
                          "L116", "L121", "L127", "L128", "L133", "L135", "L152",
                          "L153", "L154", "L198", "done"}

\* C4: the table init_sbox returns holds every value of 0..255 exactly once.
C4_Bijection ==
    SboxReturned =>
        /\ Len(q_sbox) = 256
        /\ {q_sbox[k] : k \in 1..256} = 0..255

C5_Order ==
    /\ acc.mixes <= 1
    /\ acc.rounds <= num_rounds
    /\ acc.mixes = 1 => acc.rounds = num_rounds /\ pc \in {"encode", "done"}
    /\ DigestPrinted => acc.mixes = 1 /\ pc = "done"
    /\ pc = "done" => DigestPrinted /\ Len(stdout) = 2

C5_NoRoundAfterFinalizer == [][acc.mixes >= 1 => acc' = acc]_vars

C5_ReachesDone == (read_result = "ok") ~> (pc = "done")

\* C5: a run whose read succeeded goes Init, num_rounds rounds, end_mix, the
\* digest line, Done: end_mix runs once, after exactly num_rounds rounds; no
\* round follows it; the digest is printed only after it; and, main being
\* scheduled until it returns, Done is reached.
C5_Linear == []C5_Order /\ C5_NoRoundAfterFinalizer /\ C5_ReachesDone

\* a finished run of more than 10000 rounds
C5_Witness ==
    pc = "done" /\ acc.mixes = 1 /\ acc.rounds = num_rounds /\ num_rounds > 10000

LowerHex == {"0", "1", "2", "3", "4", "5", "6", "7", "8", "9",
             "a", "b", "c", "d", "e", "f"}

\* the value of a hexadecimal digit
HexVal(c) == CHOOSE v \in 0..15 : HexDigits[v + 1] = c

\* C6: the accumulator has 64 bytes in every state of the pipeline, and the
\* digest is 128 lowercase hexadecimal digits, two per accumulator byte in
\* index order, the most significant first.
C6_Shape ==
    /\ q_pc # "idle" => Len(q_state) = 64
    /\ q_pc = "done" =>
          /\ Len(q_hex) = 128
          /\ \A k \in 1..64 :
                /\ q_hex[2 * k - 1] \in LowerHex
                /\ q_hex[2 * k] \in LowerHex
                /\ 16 * HexVal(q_hex[2 * k - 1]) + HexVal(q_hex[2 * k]) = q_state[k]

\* a digest with a byte below 16, whose first digit is the padding zero
C6_Witness == q_pc = "done" /\ \E k \in 1..64 : q_state[k] < 16

\* C7: the initial accumulator is zero but for byte 0 = len mod 256 and
\* byte 1 = (len div 256) mod 256, so it is the one of len mod 65536.
C7_InitState ==
    l_state # <<>> =>
        /\ Len(l_state) = 64
        /\ l_state[1] = l_len % 256
        /\ l_state[2] = (l_len \div 256) % 256
        /\ \A k \in 3..64 : l_state[k] = 0
        /\ l_state = InitState(l_len % 65536)

\* the accumulator of a length beyond 65536 with a high byte that is not zero
C7_Witness == l_state # <<>> /\ l_len > 65536 /\ l_state[2] # 0

\* C8, as amended: line 101 sets state[i] to
\* (state[i] * 0x9E + state[(i + 1) mod 8]) mod 256: the byte added is the one
\* at index (i + 1) mod 8.
C8_Line101 ==
    [][(q_pc = "L101" /\ q_pc' = "L102") =>
          q_state' = [q_state EXCEPT ![q_i + 1] =
              (q_state[q_i + 1] * 158 + q_state[((q_i + 1) % 8) + 1]) % 256]]_vars

\* C8 as stated: the byte added is the one at index i mod 8.
C8_AddsSameIndex ==
    [][(q_pc = "L101" /\ q_pc' = "L102") =>
          q_state' = [q_state EXCEPT ![q_i + 1] =
              (q_state[q_i + 1] * 158 + q_state[(q_i % 8) + 1]) % 256]]_vars

\* line 101 has run at position 7, where (i + 1) mod 8 = 0
C8_Witness == q_pc = "L102" /\ q_i = 7 /\ q_round = 1

RotateOnce(v) == ((2 * v) % 256) + (v \div 128)

\* v rotated left one bit at a time, k times
RECURSIVE RotateSteps(_, _)
RotateSteps(v, k) == IF k = 0 THEN v ELSE RotateSteps(RotateOnce(v), k - 1)

\* the three steps of the finalizer on accumulator byte s, block byte b and
\* table t, the rotation count reduced modulo 8
ThreeSteps(s, b, t) ==
    LET x == Xor(s, b)
        r == RotateSteps(x, t[x + 1] % 8)
    IN  Xor(((r + b) * 3) % 256, b)

C9_Result ==
    q_pc \in {"L198", "done"} =>
        \A k \in 1..64 : q_state[k] = ThreeSteps(q_pre[k], q_block[k], q_sbox)

C9_Rotation ==
    [][(q_pc = "L153" /\ q_pc' = "L154") =>
          q_state'[q_i + 1] =
              RotateSteps(q_state[q_i + 1], q_sbox[q_state[q_i + 1] + 1] % 8)]_vars

\* C9: line 153, which rotates by the unreduced table[s], gives what a rotation
\* by table[s] mod 8 gives, and end_mix gives the three-step formula at every
\* position.
C9_EndMix == []C9_Result /\ C9_Rotation

\* end_mix has run and one of its rotation counts was 8 or more
C9_Witness ==
    q_pc = "done" /\ \E k \in 1..64 : q_sbox[Xor(q_pre[k], q_block[k]) + 1] >= 8

\* C10: every indexing of init_sbox, round and end_mix is in bounds and no
\* arithmetic aborts, for inputs shorter and longer than 64 bytes: no
\* statement of the pipeline panics.
C10_NoPanic == q_pc # "panic"

\* the pipeline has run to its end on an input longer than 64 bytes
C10_Witness == q_pc = "done" /\ Len(q_bytes) > 64 /\ q_round = MaxRounds

====
